---- MODULE Spec2Model ----
(***************************************************************************)
(* Model of src/main.py: the Bangla/Chakma dictionary translator.          *)
(*                                                                         *)
(* A Python str is a sequence of one-character strings, so that strip,     *)
(* lower, split and join are computed character by character.  A cell of   *)
(* the pandas DataFrame is either NaN (an empty CSV field) or a str.       *)
(***************************************************************************)
EXTENDS Integers, Sequences, FiniteSets, TLC

VARIABLES
    df,                 \* self.df: the rows pd.read_csv produced
    chakma_to_bangla,   \* self.chakma_to_bangla: dict str -> list of str
    bangla_to_chakma,   \* self.bangla_to_chakma: dict str -> list of str
    phase,              \* "start" (module not yet imported), "idle", "replied"
    req,                \* the request (or direct call) being answered
    resp,               \* the HTTP response of the request being answered
    result,             \* what a direct call of a translator method returned
    invoked             \* whether the translator was called for this request

vars == <<df, chakma_to_bangla, bangla_to_chakma, phase, req, resp, result, invoked>>

----------------------------------------------------------------------------
(* Bounds of the model *)

MaxRows == 2        \* rows of the source table, when the loading alone is checked
MaxServedRows == 1  \* rows of the source table, when requests are served from it
MaxTextLen == 3     \* characters of a request's text

----------------------------------------------------------------------------
(* Python str operations *)

Lower(c) == IF c = "A" THEN "a" ELSE IF c = "B" THEN "b" ELSE c

\* str.lower()
lower(s) == [i \in 1..Len(s) |-> Lower(s[i])]

IsSpace(c) == c = " "

RECURSIVE lstrip(_)
lstrip(s) == IF s # <<>> /\ IsSpace(Head(s)) THEN lstrip(Tail(s)) ELSE s

RECURSIVE rstrip(_)
rstrip(s) ==
    IF s # <<>> /\ IsSpace(s[Len(s)]) THEN rstrip(SubSeq(s, 1, Len(s) - 1)) ELSE s

\* str.strip()
strip(s) == rstrip(lstrip(s))

\* str.split(sep): always at least one piece, empty pieces kept
RECURSIVE split(_, _)
split(s, sep) ==
    IF \A i \in 1..Len(s) : s[i] # sep
    THEN <<s>>
    ELSE LET i == CHOOSE k \in 1..Len(s) :
                      s[k] = sep /\ \A j \in 1..(k - 1) : s[j] # sep
         IN  <<SubSeq(s, 1, i - 1)>> \o split(SubSeq(s, i + 1, Len(s)), sep)

\* str.split() without a separator: runs of whitespace separate, no empty token
RECURSIVE split_ws(_)
split_ws(s) ==
    LET t == lstrip(s)
    IN  IF t = <<>>
        THEN <<>>
        ELSE LET n == IF \A i \in 1..Len(t) : ~IsSpace(t[i])
                      THEN Len(t) + 1
                      ELSE CHOOSE k \in 1..Len(t) :
                               IsSpace(t[k]) /\ \A j \in 1..(k - 1) : ~IsSpace(t[j])
             IN  <<SubSeq(t, 1, n - 1)>> \o split_ws(SubSeq(t, n, Len(t)))

\* sep.join(xs)
RECURSIVE join(_, _)
join(sep, xs) ==
    IF xs = <<>> THEN <<>>
    ELSE IF Len(xs) = 1 THEN xs[1]
    ELSE xs[1] \o sep \o join(sep, Tail(xs))

----------------------------------------------------------------------------
(* DataFrame cells *)

NaN == [nan |-> TRUE, s |-> <<>>]
Cell(s) == [nan |-> FALSE, s |-> s]

\* str(row[...]): a NaN cell prints as the three characters n, a, n
str(cell) == IF cell.nan THEN <<"n", "a", "n">> ELSE cell.s

\* The chakma cells a row is drawn from:
\*   an empty field; "A, b" (upper case, padding); "a," (an empty piece)
ChakmaCells ==
    { NaN,
      Cell(<<"A", ",", " ", "b">>),
      Cell(<<"a", ",">>) }

\* The bangla cells a row is drawn from:
\*   an empty field; "B" (one term, upper case); "a b, B" (two synonyms, the
\*   first a two-word term); "a,,B" (an empty piece between two terms);
\*   "," (nothing but empty pieces)
BanglaCells ==
    { NaN,
      Cell(<<"B">>),
      Cell(<<"a", " ", "b", ",", " ", "B">>),
      Cell(<<"a", ",", ",", "B">>),
      Cell(<<",">>) }

Rows == [chakma : ChakmaCells, bangla : BanglaCells]

TablesUpTo(n) == UNION { [1..k -> Rows] : k \in 0..n }

----------------------------------------------------------------------------
(* Python dict operations *)

EmptyDict == <<>>

\* a variant of dict_set that keeps the value of a key already present
dict_set_if_absent(d, k, v) ==
    [x \in DOMAIN d \cup {k} |-> IF x \in DOMAIN d THEN d[x] ELSE v]

\* d[k] = v
dict_set(d, k, v) == [x \in DOMAIN d \cup {k} |-> IF x = k THEN v ELSE d[x]]

\* d.get(k, default)
dict_get(d, k, default) == IF k \in DOMAIN d THEN d[k] ELSE default

\* a variant of dict_after_get that behaves as d.setdefault(k, default)
dict_after_setdefault(d, k, default) ==
    IF k \in DOMAIN d THEN d ELSE [x \in DOMAIN d \cup {k} |-> IF x = k THEN default ELSE d[x]]

\* the dict after d.get(k, default): get inserts nothing
dict_after_get(d, k, default) == d

----------------------------------------------------------------------------
(* BidirectionalTranslator._build_dictionaries *)

\* a variant of words_of that drops the empty pieces
words_of_dropping_empty(cell) ==
    LET parts == split(str(cell), ",")
    IN  SelectSeq([i \in 1..Len(parts) |-> strip(parts[i])], LAMBDA w : w # <<>>)

\* [word.strip() for word in str(cell).split(',')]
words_of(cell) ==
    LET parts == split(str(cell), ",")
    IN  [i \in 1..Len(parts) |-> strip(parts[i])]

chakma_words(row) == words_of(row.chakma)
bangla_words(row) == words_of(row.bangla)

\* for w in words: if w: d[w.lower()] = value
RECURSIVE add_keys(_, _, _)
add_keys(d, words, value) ==
    IF words = <<>> THEN d
    ELSE add_keys(IF Head(words) # <<>>
                  THEN dict_set(d, lower(Head(words)), value)
                  ELSE d,
                  Tail(words), value)

\* the first inner loop: every chakma word maps to the row's bangla words
add_chakma_to_bangla(d, row) == add_keys(d, chakma_words(row), bangla_words(row))

\* a variant of add_bangla_to_chakma that maps a bangla word to the chakma words
add_bangla_to_chakma_cross(d, row) == add_keys(d, bangla_words(row), chakma_words(row))

\* the second inner loop: every bangla word maps to the row's bangla words
add_bangla_to_chakma(d, row) == add_keys(d, bangla_words(row), bangla_words(row))

\* the outer loop over the rows, in order
RECURSIVE build_dictionaries(_, _)
build_dictionaries(rows, acc) ==
    IF rows = <<>> THEN acc
    ELSE build_dictionaries(
             Tail(rows),
             [c2b |-> add_chakma_to_bangla(acc.c2b, Head(rows)),
              b2c |-> add_bangla_to_chakma(acc.b2c, Head(rows))])

----------------------------------------------------------------------------
(* BidirectionalTranslator.translate_word and translate_sentence *)

dictionary_of(to_bangla) == IF to_bangla THEN chakma_to_bangla ELSE bangla_to_chakma

\* a variant of translate_word whose default is the word as given
translate_word_as_given(word, to_bangla) ==
    dict_get(dictionary_of(to_bangla), lower(word), <<word>>)

translate_word(word, to_bangla) ==
    LET w == lower(word)
    IN  dict_get(dictionary_of(to_bangla), w, <<w>>)

\* the selected index after translate_word ran
index_after_translate_word(word, to_bangla) ==
    LET w == lower(word)
    IN  dict_after_get(dictionary_of(to_bangla), w, <<w>>)

NoAlternatives ==
    <<"N", "o", " ", "a", "l", "t", "e", "r", "n", "a", "t", "i", "v", "e", " ",
      "t", "r", "a", "n", "s", "l", "a", "t", "i", "o", "n", "s">>

\* f"{word}: {', '.join(translations)}"
possibility(word, translations) ==
    word \o <<":", " ">> \o join(<<",", " ">>, translations)

\* a variant of sentence_loop that takes the last synonym as the primary one
RECURSIVE sentence_loop_last(_, _, _, _)
sentence_loop_last(words, to_bangla, primary_translation, all_possibilities) ==
    IF words = <<>>
    THEN [primary_translation |-> primary_translation,
          all_possibilities |-> all_possibilities]
    ELSE LET word == Head(words)
             translations == translate_word(word, to_bangla)
         IN  sentence_loop_last(
                 Tail(words), to_bangla,
                 Append(primary_translation, translations[Len(translations)]),
                 IF Len(translations) > 1
                 THEN Append(all_possibilities, possibility(word, translations))
                 ELSE all_possibilities)

\* the for loop of translate_sentence over the remaining words
RECURSIVE sentence_loop(_, _, _, _)
sentence_loop(words, to_bangla, primary_translation, all_possibilities) ==
    IF words = <<>>
    THEN [primary_translation |-> primary_translation,
          all_possibilities |-> all_possibilities]
    ELSE LET word == Head(words)
             translations == translate_word(word, to_bangla)
         IN  sentence_loop(
                 Tail(words), to_bangla,
                 Append(primary_translation, translations[1]),
                 IF Len(translations) > 1
                 THEN Append(all_possibilities, possibility(word, translations))
                 ELSE all_possibilities)

\* a variant of translate_sentence that returns the possibilities as they are
translate_sentence_no_sentinel(sentence, to_bangla) ==
    LET words == split_ws(sentence)
        done == sentence_loop(words, to_bangla, <<>>, <<>>)
    IN  [primary |-> join(<<" ">>, done.primary_translation),
         alternatives |-> done.all_possibilities]

translate_sentence(sentence, to_bangla) ==
    LET words == split_ws(sentence)
        done == sentence_loop(words, to_bangla, <<>>, <<>>)
    IN  [primary |-> join(<<" ">>, done.primary_translation),
         alternatives |-> IF done.all_possibilities # <<>>
                          THEN done.all_possibilities
                          ELSE <<NoAlternatives>>]

\* the selected index after translate_sentence ran over all its words
RECURSIVE index_after_words(_, _, _)
index_after_words(d, words, to_bangla) ==
    IF words = <<>> THEN d
    ELSE index_after_words(
             dict_after_get(d, lower(Head(words)), <<lower(Head(words))>>),
             Tail(words), to_bangla)

----------------------------------------------------------------------------
(* Requests and responses *)

TextChars == {"a", "B", " "}

Texts == UNION { [1..k -> TextChars] : k \in 0..MaxTextLen }

\* request.get_json(): None, or an object whose "text" is absent, a string
\* or another JSON value, and whose "to_bangla" is absent, true or false
NoReq == [op |-> "none", null |-> FALSE, text_kind |-> "absent", text |-> <<>>,
          to_bangla |-> "absent"]

Bodies ==
    { [op |-> "none", null |-> TRUE, text_kind |-> "absent", text |-> <<>>,
       to_bangla |-> "absent"] }
    \cup [op : {"none"}, null : {FALSE}, text_kind : {"absent", "other"},
          text : {<<>>}, to_bangla : {"absent", "true", "false"}]
    \cup [op : {"none"}, null : {FALSE}, text_kind : {"str"},
          text : Texts, to_bangla : {"absent", "true", "false"}]

\* data.get('to_bangla', True)
get_to_bangla(data) == data.to_bangla # "false"

\* a variant of missing_text that tests only "not data"
missing_text_not_data(data) ==
    \/ data.null
    \/ (data.text_kind = "absent" /\ data.to_bangla = "absent")

\* not data or 'text' not in data
missing_text(data) ==
    \/ data.null
    \/ data.text_kind = "absent"

\* status: the HTTP status; keys: the keys of the JSON body; the other fields
\* hold the body's values (a key that is absent holds "" or <<>>)
NoResp == [status |-> 0, keys |-> {}, error |-> "", text |-> <<>>,
           primary_translation |-> <<>>, alternative_translations |-> <<>>,
           direction |-> ""]

\* jsonify({'error': ...}), status
error_response(status, message) ==
    [NoResp EXCEPT !.status = status, !.keys = {"error"}, !.error = message]

TranslationKeys == {"text", "primary_translation", "alternative_translations", "direction"}

\* translations: the list translate_word returned; primary, alternatives: the
\* pair translate_sentence returned
NoResult == [translations |-> <<>>, primary |-> <<>>, alternatives |-> <<>>]

direction_name(to_bangla) == IF to_bangla THEN "chakma_to_bangla" ELSE "bangla_to_chakma"

\* the /translate/word handler
route_translate_word(data) ==
    IF missing_text(data) THEN error_response(400, "Missing required field: text")
    ELSE IF data.text_kind # "str" THEN error_response(500, "Translation failed")
    ELSE LET text == strip(data.text)
             to_bangla == get_to_bangla(data)
         IN  IF text = <<>> THEN error_response(400, "Empty text provided")
             ELSE LET translations == translate_word(text, to_bangla)
                  IN  [status |-> 200, keys |-> TranslationKeys, error |-> "", text |-> text,
                       primary_translation |-> translations[1],
                       alternative_translations |->
                           IF Len(translations) > 1 THEN Tail(translations) ELSE <<>>,
                       direction |-> direction_name(to_bangla)]

\* the /translate/sentence handler
route_translate_sentence(data) ==
    IF missing_text(data) THEN error_response(400, "Missing required field: text")
    ELSE IF data.text_kind # "str" THEN error_response(500, "Translation failed")
    ELSE LET text == strip(data.text)
             to_bangla == get_to_bangla(data)
         IN  IF text = <<>> THEN error_response(400, "Empty text provided")
             ELSE LET t == translate_sentence(text, to_bangla)
                  IN  [status |-> 200, keys |-> TranslationKeys, error |-> "", text |-> text,
                       primary_translation |-> t.primary,
                       alternative_translations |-> t.alternatives,
                       direction |-> direction_name(to_bangla)]

\* whether a handler gets as far as calling the translator
reaches_translator(data) ==
    /\ ~missing_text(data)
    /\ data.text_kind = "str"
    /\ strip(data.text) # <<>>

----------------------------------------------------------------------------
(* The state machine *)

InitWith(tables) ==
    /\ df \in tables
    /\ chakma_to_bangla = EmptyDict
    /\ bangla_to_chakma = EmptyDict
    /\ phase = "start"
    /\ req = NoReq
    /\ resp = NoResp
    /\ result = NoResult
    /\ invoked = FALSE

Init == InitWith(TablesUpTo(MaxServedRows))

\* translator = BidirectionalTranslator(...): read the table, build both indexes
Load ==
    /\ phase = "start"
    /\ LET built == build_dictionaries(df, [c2b |-> EmptyDict, b2c |-> EmptyDict])
       IN  /\ chakma_to_bangla' = built.c2b
           /\ bangla_to_chakma' = built.b2c
    /\ phase' = "idle"
    /\ UNCHANGED <<df, req, resp, result, invoked>>

\* GET /health
HealthCheck ==
    /\ phase = "idle"
    /\ phase' = "replied"
    /\ req' = [NoReq EXCEPT !.op = "health"]
    /\ resp' = [NoResp EXCEPT !.status = 200, !.keys = {"status", "message"}]
    /\ UNCHANGED <<df, chakma_to_bangla, bangla_to_chakma, result, invoked>>

\* POST /translate/word
TranslateWordRoute ==
    /\ phase = "idle"
    /\ \E data \in Bodies :
        /\ req' = [data EXCEPT !.op = "word"]
        /\ resp' = route_translate_word(data)
        /\ invoked' = reaches_translator(data)
        /\ IF reaches_translator(data)
           THEN LET text == strip(data.text)
                    to_bangla == get_to_bangla(data)
                    after == index_after_translate_word(text, to_bangla)
                IN  /\ chakma_to_bangla' = IF to_bangla THEN after ELSE chakma_to_bangla
                    /\ bangla_to_chakma' = IF to_bangla THEN bangla_to_chakma ELSE after
           ELSE UNCHANGED <<chakma_to_bangla, bangla_to_chakma>>
    /\ phase' = "replied"
    /\ UNCHANGED <<df, result>>

\* POST /translate/sentence
TranslateSentenceRoute ==
    /\ phase = "idle"
    /\ \E data \in Bodies :
        /\ req' = [data EXCEPT !.op = "sentence"]
        /\ resp' = route_translate_sentence(data)
        /\ invoked' = reaches_translator(data)
        /\ IF reaches_translator(data)
           THEN LET text == strip(data.text)
                    to_bangla == get_to_bangla(data)
                    after == index_after_words(dictionary_of(to_bangla),
                                               split_ws(text), to_bangla)
                IN  /\ chakma_to_bangla' = IF to_bangla THEN after ELSE chakma_to_bangla
                    /\ bangla_to_chakma' = IF to_bangla THEN bangla_to_chakma ELSE after
           ELSE UNCHANGED <<chakma_to_bangla, bangla_to_chakma>>
    /\ phase' = "replied"
    /\ UNCHANGED <<df, result>>

\* translator.translate_word(word, to_bangla) called with any word
TranslateWordCall ==
    /\ phase = "idle"
    /\ \E word \in Texts, to_bangla \in BOOLEAN :
        /\ req' = [NoReq EXCEPT !.op = "call", !.text_kind = "str", !.text = word,
                                !.to_bangla = IF to_bangla THEN "true" ELSE "false"]
        /\ result' = [NoResult EXCEPT !.translations = translate_word(word, to_bangla)]
        /\ invoked' = TRUE
        /\ LET after == index_after_translate_word(word, to_bangla)
           IN  /\ chakma_to_bangla' = IF to_bangla THEN after ELSE chakma_to_bangla
               /\ bangla_to_chakma' = IF to_bangla THEN bangla_to_chakma ELSE after
    /\ phase' = "replied"
    /\ UNCHANGED <<df, resp>>

\* translator.translate_sentence(sentence, to_bangla) called with any sentence
TranslateSentenceCall ==
    /\ phase = "idle"
    /\ \E sentence \in Texts, to_bangla \in BOOLEAN :
        /\ req' = [NoReq EXCEPT !.op = "call_sentence", !.text_kind = "str",
                                !.text = sentence,
                                !.to_bangla = IF to_bangla THEN "true" ELSE "false"]
        /\ LET t == translate_sentence(sentence, to_bangla)
           IN  result' = [NoResult EXCEPT !.primary = t.primary,
                                          !.alternatives = t.alternatives]
        /\ invoked' = TRUE
        /\ LET after == index_after_words(dictionary_of(to_bangla),
                                          split_ws(sentence), to_bangla)
           IN  /\ chakma_to_bangla' = IF to_bangla THEN after ELSE chakma_to_bangla
               /\ bangla_to_chakma' = IF to_bangla THEN bangla_to_chakma ELSE after
    /\ phase' = "replied"
    /\ UNCHANGED <<df, resp>>

\* the answer has been delivered; the service waits for the next request
Deliver ==
    /\ phase = "replied"
    /\ phase' = "idle"
    /\ req' = NoReq
    /\ resp' = NoResp
    /\ result' = NoResult
    /\ invoked' = FALSE
    /\ UNCHANGED <<df, chakma_to_bangla, bangla_to_chakma>>

Next ==
    \/ Load
    \/ HealthCheck
    \/ TranslateWordRoute
    \/ TranslateSentenceRoute
    \/ TranslateWordCall
    \/ TranslateSentenceCall
    \/ Deliver

Spec == Init /\ [][Next]_vars

\* The loading alone, from larger tables
LoadInit == InitWith(TablesUpTo(MaxRows))

LoadNext == Load

LoadSpec == LoadInit /\ [][LoadNext]_vars

----------------------------------------------------------------------------
(* Vocabulary of the properties *)

Loaded == phase # "start"

Replied(op) == phase = "replied" /\ req.op = op

\* the direction a request asks for
ReqToBangla == req.to_bangla # "false"

\* normalize(term) = trim(term).toLowerCase()
normalize(s) == lower(strip(s))

\* the keys a parsed list contributes: its non-empty words, lower-cased
Terms(words) == { lower(words[i]) : i \in { j \in 1..Len(words) : words[j] # <<>> } }

ChakmaTerms(i) == Terms(chakma_words(df[i]))
BanglaTerms(i) == Terms(bangla_words(df[i]))

Built == build_dictionaries(df, [c2b |-> EmptyDict, b2c |-> EmptyDict])

HasSpace(s) == \E i \in 1..Len(s) : IsSpace(s[i])

\* the whitespace tokens of the sentence that was asked for
ReqTokens == split_ws(req.text)

\* a sentence was translated, for a /translate/sentence request or in a
\* direct call of translate_sentence
SentenceAnswered ==
    \/ Replied("sentence") /\ resp.status = 200
    \/ Replied("call_sentence")

\* the pair translate_sentence returned
Primary ==
    IF Replied("call_sentence") THEN result.primary ELSE resp.primary_translation

Alternatives ==
    IF Replied("call_sentence") THEN result.alternatives
    ELSE resp.alternative_translations

----------------------------------------------------------------------------
(* C1 *)

\* C1 as stated: when normalize(word) is not a key of the selected index,
\* translate_word(word, direction) returns [normalize(word)], the trimmed and
\* lower-cased word, also for a word with leading or trailing whitespace.
C1_MissReturnsNormalized ==
    (Replied("call") /\ normalize(req.text) \notin DOMAIN dictionary_of(ReqToBangla))
        => result.translations = <<normalize(req.text)>>

\* C1 amended: translate_word only lower-cases.  When word.lower() is not a
\* key it returns [word.lower()], whitespace kept; that is [normalize(word)]
\* for a word without leading or trailing whitespace, which is what the
\* /translate/word handler passes after its own strip().
C1_MissReturnsLowered ==
    /\ (Replied("call") /\ lower(req.text) \notin DOMAIN dictionary_of(ReqToBangla))
           => result.translations = <<lower(req.text)>>
    /\ (Replied("call") /\ req.text = strip(req.text)
            /\ normalize(req.text) \notin DOMAIN dictionary_of(ReqToBangla))
           => result.translations = <<normalize(req.text)>>
    /\ (Replied("word") /\ resp.status = 200
            /\ normalize(req.text) \notin DOMAIN dictionary_of(ReqToBangla))
           => /\ resp.primary_translation = normalize(req.text)
              /\ resp.alternative_translations = <<>>

\* C1 witness: an unknown upper-case word with whitespace around it was looked up
C1_Witness ==
    /\ Replied("call")
    /\ req.text # strip(req.text)
    /\ strip(req.text) # <<>>
    /\ lower(req.text) # req.text
    /\ lower(req.text) \notin DOMAIN dictionary_of(ReqToBangla)
    /\ normalize(req.text) \notin DOMAIN dictionary_of(ReqToBangla)
    /\ result.translations = <<lower(req.text)>>

----------------------------------------------------------------------------
(* C2 *)

\* C2: whatever table was loaded, every stored synonym list has at least one
\* element, and so has translate_word(word, direction) for every non-empty
\* word and either direction: taking element 0 of it never fails.
C2_ResultNonEmpty ==
    Loaded =>
        /\ \A k \in DOMAIN chakma_to_bangla : Len(chakma_to_bangla[k]) >= 1
        /\ \A k \in DOMAIN bangla_to_chakma : Len(bangla_to_chakma[k]) >= 1
        /\ \A word \in Texts \ {<<>>} : \A to_bangla \in BOOLEAN :
               Len(translate_word(word, to_bangla)) >= 1

\* C2 witness: a known word whose stored list holds nothing but empty strings
C2_Witness ==
    /\ Loaded
    /\ \E word \in Texts \ {<<>>} :
           /\ lower(word) \in DOMAIN chakma_to_bangla
           /\ Len(translate_word(word, TRUE)) >= 1
           /\ \A i \in 1..Len(translate_word(word, TRUE)) :
                  translate_word(word, TRUE)[i] = <<>>

----------------------------------------------------------------------------
(* C3 *)

\* C3 as stated: the primary string of a sentence, split on whitespace, has as
\* many tokens as the input sentence, the i-th being the primary translation
\* of the i-th input token.
C3_PrimaryTokenCount ==
    SentenceAnswered =>
        LET out == split_ws(Primary)
            toks == ReqTokens
        IN  /\ Len(out) = Len(toks)
            /\ \A i \in 1..Len(toks) :
                   out[i] = translate_word(toks[i], ReqToBangla)[1]

\* C3 amended: the primary string is the element-0 translations of the input
\* tokens, one per token and in token order, joined by single spaces.  Split
\* on whitespace it gives back one token per input token when every one of
\* these translations is a non-empty term without whitespace; a stored
\* synonym of several words, or an empty one, changes the count.
C3_PrimaryIsJoin ==
    SentenceAnswered =>
        LET toks == ReqTokens
            firsts == [i \in 1..Len(toks) |-> translate_word(toks[i], ReqToBangla)[1]]
            out == split_ws(Primary)
        IN  /\ Primary = join(<<" ">>, firsts)
            /\ (\A i \in 1..Len(firsts) : firsts[i] # <<>> /\ ~HasSpace(firsts[i]))
                   => /\ Len(out) = Len(toks)
                      /\ \A i \in 1..Len(toks) : out[i] = firsts[i]

\* C3 witness: a two-token sentence whose primary string has more than two tokens, none
\* of the primary translations being empty
C3_Witness ==
    /\ SentenceAnswered
    /\ Len(ReqTokens) = 2
    /\ \A i \in 1..2 : translate_word(ReqTokens[i], ReqToBangla)[1] # <<>>
    /\ Len(split_ws(Primary)) > 2

----------------------------------------------------------------------------
(* C4 *)

\* the positions of the tokens that have more than one translation, in order
MultiPositions ==
    LET toks == ReqTokens
    IN  SelectSeq([i \in 1..Len(toks) |-> i],
                  LAMBDA i : Len(translate_word(toks[i], ReqToBangla)) > 1)

\* C4: the alternatives of a sentence are the one-entry sentinel list exactly
\* when no token has a translate_word result longer than 1; otherwise there
\* is one entry "<token>: <syn1>, <syn2>, ..." per such token, in token
\* order; the list is never empty.
C4_Alternatives ==
    SentenceAnswered =>
        LET alts == Alternatives
            toks == ReqTokens
            multi == MultiPositions
        IN  /\ alts # <<>>
            /\ (alts = <<NoAlternatives>>) <=> (multi = <<>>)
            /\ multi # <<>> =>
                   /\ Len(alts) = Len(multi)
                   /\ \A n \in 1..Len(alts) :
                          alts[n] = toks[multi[n]] \o <<":", " ">>
                                    \o join(<<",", " ">>,
                                            translate_word(toks[multi[n]], ReqToBangla))

\* C4 witness: a sentence of which two tokens have synonyms
C4_Witness ==
    /\ SentenceAnswered
    /\ Len(ReqTokens) >= 2
    /\ Len(Alternatives) = 2
    /\ Alternatives[1] # Alternatives[2]

----------------------------------------------------------------------------
(* C5 *)

----------------------------------------------------------------------------
(* C6 *)

\* C6 as stated: no synonym list stored in either index contains an empty
\* string.
C6_NoEmptySynonym ==
    Loaded =>
        /\ \A k \in DOMAIN chakma_to_bangla :
               \A i \in 1..Len(chakma_to_bangla[k]) : chakma_to_bangla[k][i] # <<>>
        /\ \A k \in DOMAIN bangla_to_chakma :
               \A i \in 1..Len(bangla_to_chakma[k]) : bangla_to_chakma[k][i] # <<>>

----------------------------------------------------------------------------
(* C7 *)

----------------------------------------------------------------------------
(* C8 *)

\* C8: once loaded, no step changes chakma_to_bangla or bangla_to_chakma,
\* whatever request is answered and however it is answered.
C8_IndexesNeverChange ==
    [][Loaded => /\ chakma_to_bangla' = chakma_to_bangla
                 /\ bangla_to_chakma' = bangla_to_chakma]_vars

\* C8 witness: a sentence with a token that is in neither index was answered, and both
\* indexes are as loaded
C8_Witness ==
    /\ SentenceAnswered
    /\ Len(df) >= 1
    /\ \E i \in 1..Len(ReqTokens) :
           lower(ReqTokens[i]) \notin DOMAIN chakma_to_bangla \cup DOMAIN bangla_to_chakma
    /\ chakma_to_bangla = Built.c2b
    /\ bangla_to_chakma = Built.b2c

----------------------------------------------------------------------------
(* C9 *)

\* the last row in which k is a key of the given column
LastChakmaRow(k) ==
    CHOOSE i \in 1..Len(df) :
        k \in ChakmaTerms(i) /\ \A j \in (i + 1)..Len(df) : k \notin ChakmaTerms(j)

LastBanglaRow(k) ==
    CHOOSE i \in 1..Len(df) :
        k \in BanglaTerms(i) /\ \A j \in (i + 1)..Len(df) : k \notin BanglaTerms(j)

\* C9: each index has exactly the distinct normalized terms of its column as
\* keys, and the value of a key is the bangla list of the last row in which
\* the term occurs.
C9_LastRowWins ==
    Loaded =>
        /\ DOMAIN chakma_to_bangla = UNION { ChakmaTerms(i) : i \in 1..Len(df) }
        /\ DOMAIN bangla_to_chakma = UNION { BanglaTerms(i) : i \in 1..Len(df) }
        /\ \A k \in DOMAIN chakma_to_bangla :
               chakma_to_bangla[k] = bangla_words(df[LastChakmaRow(k)])
        /\ \A k \in DOMAIN bangla_to_chakma :
               bangla_to_chakma[k] = bangla_words(df[LastBanglaRow(k)])

\* C9 witness: a chakma term of two rows with different bangla lists holds the second
C9_Witness ==
    /\ Loaded
    /\ Len(df) = 2
    /\ bangla_words(df[1]) # bangla_words(df[2])
    /\ \E k \in ChakmaTerms(1) \cap ChakmaTerms(2) :
           chakma_to_bangla[k] = bangla_words(df[2])

----------------------------------------------------------------------------
(* C10 *)

\* the trimmed comma-separated pieces of the cells of the table that hold text
SourcePieces ==
    UNION { UNION { { strip(split(c.s, ",")[n]) : n \in 1..Len(split(c.s, ",")) }
                    : c \in { x \in {df[i].chakma, df[i].bangla} : ~x.nan } }
            : i \in 1..Len(df) }

\* C10 as stated: an empty cell contributes nothing; every key of either
\* index is a non-empty, trimmed, lower-case term of the source, and no
\* stored synonym is a placeholder that the source does not contain.
C10_NoPlaceholder ==
    Loaded =>
        /\ \A k \in DOMAIN chakma_to_bangla \cup DOMAIN bangla_to_chakma :
               /\ k # <<>>
               /\ k = strip(k)
               /\ k = lower(k)
               /\ k \in { lower(p) : p \in SourcePieces }
        /\ \A k \in DOMAIN chakma_to_bangla :
               \A i \in 1..Len(chakma_to_bangla[k]) :
                   chakma_to_bangla[k][i] \in SourcePieces
        /\ \A k \in DOMAIN bangla_to_chakma :
               \A i \in 1..Len(bangla_to_chakma[k]) :
                   bangla_to_chakma[k][i] \in SourcePieces

====
